---------------------------- MODULE Spec2Model ----------------------------
(***************************************************************************)
(* A model of the iterative DNS resolver of orestonce/nslookup             *)
(* (src/main.go): the connection broker gDialRemote with its racing        *)
(* goroutines, the transport exchangePacket with its 2-byte length         *)
(* framing, the referral loop lookupResourceListL1 and the Lookup*         *)
(* projectors that wrap it.                                                *)
(*                                                                         *)
(* Strings are sequences of one-character strings, so that HasSuffix,      *)
(* TrimSuffix and concatenation are computed and not assumed.              *)
(***************************************************************************)
EXTENDS Integers, Sequences, FiniteSets, TLC

(***************************************************************************)
(* Bounds of the model.                                                    *)
(***************************************************************************)
\* Longest server list handed to gDialRemote when its race is explored
\* goroutine step by goroutine step.
MaxAddrs == 3

(***************************************************************************)
(* Values.                                                                 *)
(***************************************************************************)
\* The nil net.Conn.  A live connection is <<depth, i>>: the connection that
\* the dial of the i-th address of the hop at that depth produced.
Nil == << >>

\* The nil error.
NoErr == [kind |-> "nil", at |-> 0]

Err(kind, at) == [kind |-> kind, at |-> at]

\* errors.New("LookupContext.DialRemote targetAddrList is nil")
ErrAddrListNil == Err("targetAddrList is nil", 0)

\* The error err0 that DialContext returned for the i-th address.
DialErr(i) == Err("dial", i)

\* A run-time panic (index out of range, slice bounds out of range).
Panic(what) == Err("panic", what)

gRootServers ==
 << << "1", "9", "8", ".", "4", "1", ".", "0", ".", "4", ":", "5", "3" >>,
    << "1", "9", "2", ".", "2", "2", "8", ".", "7", "9", ".", "2", "0", "1", ":", "5", "3" >>,
    << "1", "9", "2", ".", "3", "3", ".", "4", ".", "1", "2", ":", "5", "3" >>,
    << "1", "2", "8", ".", "8", ".", "1", "0", ".", "9", "0", ":", "5", "3" >>,
    << "1", "9", "2", ".", "2", "0", "3", ".", "2", "3", "0", ".", "1", "0", ":", "5", "3" >>,
    << "1", "9", "2", ".", "5", ".", "5", ".", "2", "4", "1", ":", "5", "3" >>,
    << "1", "9", "2", ".", "1", "1", "2", ".", "3", "6", ".", "4", ":", "5", "3" >>,
    << "1", "2", "8", ".", "6", "3", ".", "2", ".", "5", "3", ":", "5", "3" >>,
    << "1", "9", "2", ".", "3", "6", ".", "1", "4", "8", ".", "1", "7", ":", "5", "3" >>,
    << "1", "9", "2", ".", "5", "8", ".", "1", "2", "8", ".", "3", "0", ":", "5", "3" >>,
    << "1", "9", "3", ".", "0", ".", "1", "4", ".", "1", "2", "9", ":", "5", "3" >>,
    << "1", "9", "9", ".", "7", ".", "8", "3", ".", "4", "2", ":", "5", "3" >>,
    << "2", "0", "2", ".", "1", "2", ".", "2", "7", ".", "3", "3", ":", "5", "3" >> >>

VARIABLES
  \* ---- one call of gDialRemote, goroutine by goroutine ----
  targetAddrList, \* the argument
  bpc,            \* where the calling goroutine is: "idle", "entry", "spawn", "wait", "returned"
  spawned,        \* how many iterations of the for loop have run
  gpc,            \* per address: where its goroutine is
  conn0,          \* per address: the connection its dial returned, or Nil
  err0,           \* per address: the error its dial returned, or NoErr
  locker,         \* sync.Mutex: 0 when free, else the goroutine holding it
  conn,           \* the named result conn: the winner slot
  errList,        \* the shared error list
  wg,             \* the WaitGroup counter
  ctxDone,        \* whether cancelFn has been called
  connWrites,     \* how many times the winner slot was assigned
  firstFail,      \* the first goroutine that took the mutex holding an error, or 0
  bret,           \* what gDialRemote returned: [conn, err], once bpc = "returned"
  \* ---- one call of exchangePacket ----
  xpc,            \* where the call is: "idle", "write", "readLen", "readBody", "done"
  send,           \* the request bytes
  temp,           \* the buffer of 2+math.MaxUint16 bytes, once it is made
  wire,           \* the bytes the call wrote to the connection
  wrote,          \* whether conn.Write returned without error
  peer,           \* how the other end answers
  stream,         \* the bytes of the answer not yet read
  xret,           \* what exchangePacket returned: [receive, err]
  \* ---- one call of a Lookup function: lookupResourceListL1 and the projection ----
  fn,             \* the function called: "LookupA", ..., "LookupMX"
  domain,         \* its argument, then the normalised name
  given,          \* its argument as the caller gave it
  rpc,            \* where the call is: "idle", "start", "dial", "exchange", "close",
                  \*   "unpack", "returned", "done", or "panicked"
  gLookupId,      \* the process-wide uint32 counter, as its two 16-bit halves
  depth,          \* the loop variable
  serverList,     \* the servers of the current hop
  hopConn,        \* conn of line 181: what gDialRemote returned for this hop
  receive,        \* the reply of this hop, as returned by exchangePacket
  hopErr,         \* err of line 187
  rret,           \* what lookupResourceListL1 returned: [resourceList, err]
  lret,           \* what the Lookup function returned: [value, err]
  attempts,       \* how many times gDialRemote was called
  lastDialed,     \* the list given to gDialRemote at its last call
  exchanges,      \* how many times exchangePacket was called
  closes,         \* how many times hopConn.Close() ran since the last dial
  decodes,        \* how many times Unpack ran since the last dial
  sent0,          \* the bytes given to exchangePacket at depth 0
  lastSent,       \* the bytes given to exchangePacket at its last call
  \* ---- Lookup calls made by several goroutines of one process ----
  caller,         \* per calling goroutine: where its call is and what it holds
  started,        \* how many calls were started
  built,          \* how many times line 152 added to gLookupId
  firstQuery,     \* the first query of the process: which addition gave its
                  \*   identifier, and the identifier; seq is 0 when there is none
  \* ---- the network ----
  open            \* the connections that were dialed successfully and not closed

brokerVars == << targetAddrList, bpc, spawned, gpc, conn0, err0, locker, conn,
                 errList, wg, ctxDone, connWrites, firstFail, bret >>

frameVars == << xpc, send, temp, wire, wrote, peer, stream, xret >>

\* What a call of exchangePacket explored on its own uses beyond send.
frameRest == << xpc, temp, wire, wrote, peer, stream, xret >>

resolveVars == << fn, domain, given, rpc, gLookupId, depth, serverList, hopConn, receive,
                  hopErr, rret, lret, attempts, lastDialed, exchanges, closes,
                  decodes, sent0, lastSent >>

\* What a call of lookupResourceListL1 holds of its own: all but the counter.
resolveRest == << fn, domain, given, rpc, depth, serverList, hopConn, receive,
                 hopErr, rret, lret, attempts, lastDialed, exchanges, closes,
                 decodes, sent0, lastSent >>

callVars == << caller, started, built, firstQuery >>

vars == << brokerVars, frameVars, resolveVars, callVars, open >>

Addrs == 1 .. Len(targetAddrList)

\* A uint32 is kept as its high and low 16 bits.  line 303: the zero value.
ZeroUint32 == [hi |-> 0, lo |-> 0]

\* line 152: atomic.AddUint32(&v, delta) for a delta below 65536: the sum
\* modulo 2^32.
AddUint32(v, delta) ==
  [hi |-> (v.hi + ((v.lo + delta) \div 65536)) % 65536, lo |-> (v.lo + delta) % 65536]

\* line 152: the conversion uint16(v) of a uint32 keeps the low 16 bits.
Uint32ToUint16(v) == v.lo

\* No call of exchangePacket is in progress.
FrameIdle ==
  /\ xpc = "idle"
  /\ send = << >>
  /\ temp = << >>
  /\ wire = << >>
  /\ wrote = FALSE
  /\ peer = [mode |-> "none"]
  /\ stream = << >>
  /\ xret = [receive |-> << >>, err |-> NoErr]

NoReturn == [conn |-> Nil, err |-> NoErr]

\* The call that is explored hop by hop has not been made.
NoLookup ==
  /\ fn = "none"
  /\ domain = << >>
  /\ given = << >>
  /\ rpc = "idle"
  /\ depth = 0
  /\ serverList = << >>
  /\ hopConn = Nil
  /\ receive = << >>
  /\ hopErr = NoErr
  /\ rret = [resourceList |-> << >>, err |-> NoErr]
  /\ lret = [value |-> << >>, err |-> NoErr]
  /\ attempts = 0
  /\ lastDialed = << >>
  /\ exchanges = 0
  /\ closes = 0
  /\ decodes = 0
  /\ sent0 = << >>
  /\ lastSent = << >>

\* No Lookup function has been called.
ResolveIdle == NoLookup /\ gLookupId = ZeroUint32

\* No goroutine calls a Lookup function beside the call that is explored.
NoCaller ==
  /\ caller = << >>
  /\ started = 0
  /\ built = 0
  /\ firstQuery = [seq |-> 0, id |-> 0]

\* No call of gDialRemote is being explored goroutine by goroutine.
BrokerIdle ==
  /\ targetAddrList = << >>
  /\ bpc = "idle"
  /\ spawned = 0
  /\ gpc = << >>
  /\ conn0 = << >>
  /\ err0 = << >>
  /\ locker = 0
  /\ conn = Nil
  /\ errList = << >>
  /\ wg = 0
  /\ ctxDone = FALSE
  /\ connWrites = 0
  /\ firstFail = 0
  /\ bret = NoReturn

(***************************************************************************)
(* gDialRemote, step by step.  The connection of the i-th address is       *)
(* <<0, i>>.                                                               *)
(***************************************************************************)

\* An entry that does not test the length of the list.
DialEntryUnchecked ==
  /\ bpc = "entry"
  /\ bpc' = "spawn"
  /\ UNCHANGED << targetAddrList, spawned, gpc, conn0, err0, locker, conn,
                  errList, wg, ctxDone, connWrites, firstFail, bret, open >>
  /\ UNCHANGED << frameVars, resolveVars, callVars >>

\* lines 215-221: the empty list is refused before anything is started.
DialEntry ==
  /\ bpc = "entry"
  /\ IF Len(targetAddrList) = 0
       THEN /\ bpc' = "returned"
            /\ bret' = [conn |-> Nil, err |-> ErrAddrListNil]
       ELSE /\ bpc' = "spawn"
            /\ bret' = bret
  /\ UNCHANGED << targetAddrList, spawned, gpc, conn0, err0, locker, conn,
                  errList, wg, ctxDone, connWrites, firstFail, open >>
  /\ UNCHANGED << frameVars, resolveVars, callVars >>

\* lines 223-243: one iteration of the for loop: wg.Add(1); go func() {...}().
DialSpawn ==
  /\ bpc = "spawn"
  /\ spawned < Len(targetAddrList)
  /\ wg' = wg + 1
  /\ gpc' = [gpc EXCEPT ![spawned + 1] = "dial"]
  /\ spawned' = spawned + 1
  /\ UNCHANGED << targetAddrList, bpc, conn0, err0, locker, conn, errList,
                  ctxDone, connWrites, firstFail, bret, open >>
  /\ UNCHANGED << frameVars, resolveVars, callVars >>

\* line 223: the range is exhausted and the caller goes on to wg.Wait().
DialLoopExit ==
  /\ bpc = "spawn"
  /\ spawned = Len(targetAddrList)
  /\ bpc' = "wait"
  /\ UNCHANGED << targetAddrList, spawned, gpc, conn0, err0, locker, conn,
                  errList, wg, ctxDone, connWrites, firstFail, bret, open >>
  /\ UNCHANGED << frameVars, resolveVars, callVars >>

\* line 228: DialContext returns a connection or an error; which one is the
\* network's choice (a dial that the cancelled or expired context ends is one
\* of the failures).
GoDial(i) ==
  /\ gpc[i] = "dial"
  /\ \E ok \in BOOLEAN :
       IF ok
         THEN /\ conn0' = [conn0 EXCEPT ![i] = << 0, i >>]
              /\ err0' = err0
              /\ open' = open \cup { << 0, i >> }
         ELSE /\ err0' = [err0 EXCEPT ![i] = DialErr(i)]
              /\ conn0' = conn0
              /\ open' = open
  /\ gpc' = [gpc EXCEPT ![i] = "lock"]
  /\ UNCHANGED << targetAddrList, bpc, spawned, locker, conn, errList, wg,
                  ctxDone, connWrites, firstFail, bret >>
  /\ UNCHANGED << frameVars, resolveVars, callVars >>

\* A mutex that excludes nobody.
MutexFreeAlways == TRUE

\* sync.Mutex: Lock() goes through only while nobody holds the mutex.
MutexFree == locker = 0

\* line 229: locker.Lock() blocks while another goroutine holds the mutex.
GoLock(i) ==
  /\ gpc[i] = "lock"
  /\ MutexFree
  /\ locker' = i
  /\ firstFail' = IF firstFail = 0 /\ err0[i] # NoErr THEN i ELSE firstFail
  /\ gpc' = [gpc EXCEPT ![i] = "crit"]
  /\ UNCHANGED << targetAddrList, bpc, spawned, conn0, err0, conn, errList, wg,
                  ctxDone, connWrites, bret, open >>
  /\ UNCHANGED << frameVars, resolveVars, callVars >>

\* lines 232-239: the two early returns of the critical section, and the read
\* of the winner slot that precedes its assignment.
GoCheck(i) ==
  /\ gpc[i] = "crit"
  /\ IF err0[i] # NoErr
       THEN /\ errList' = Append(errList, err0[i])
            /\ open' = open
            /\ gpc' = [gpc EXCEPT ![i] = "unlock"]
       ELSE IF conn # Nil
         THEN /\ open' = open \ { conn0[i] }
              /\ errList' = errList
              /\ gpc' = [gpc EXCEPT ![i] = "unlock"]
         ELSE /\ open' = open
              /\ errList' = errList
              /\ gpc' = [gpc EXCEPT ![i] = "assign"]
  /\ UNCHANGED << targetAddrList, bpc, spawned, conn0, err0, locker, conn, wg,
                  ctxDone, connWrites, firstFail, bret >>
  /\ UNCHANGED << frameVars, resolveVars, callVars >>

\* lines 240-241: conn = conn0; cancelFn().
GoAssign(i) ==
  /\ gpc[i] = "assign"
  /\ conn' = conn0[i]
  /\ connWrites' = connWrites + 1
  /\ ctxDone' = TRUE
  /\ gpc' = [gpc EXCEPT ![i] = "unlock"]
  /\ UNCHANGED << targetAddrList, bpc, spawned, conn0, err0, locker, errList,
                  wg, firstFail, bret, open >>
  /\ UNCHANGED << frameVars, resolveVars, callVars >>

\* A goroutine that leaves the critical section without unlocking.
GoUnlockForgotten(i) ==
  /\ gpc[i] = "unlock"
  /\ gpc' = [gpc EXCEPT ![i] = "wgdone"]
  /\ UNCHANGED << targetAddrList, bpc, spawned, conn0, err0, locker, conn, errList, wg,
                  ctxDone, connWrites, firstFail, bret, open >>
  /\ UNCHANGED << frameVars, resolveVars, callVars >>

\* line 230: the deferred locker.Unlock().
GoUnlock(i) ==
  /\ gpc[i] = "unlock"
  /\ locker' = 0
  /\ gpc' = [gpc EXCEPT ![i] = "wgdone"]
  /\ UNCHANGED << targetAddrList, bpc, spawned, conn0, err0, conn, errList, wg,
                  ctxDone, connWrites, firstFail, bret, open >>
  /\ UNCHANGED << frameVars, resolveVars, callVars >>

\* line 227: the deferred wg.Done(), the goroutine's last step.
GoDone(i) ==
  /\ gpc[i] = "wgdone"
  /\ wg' = wg - 1
  /\ gpc' = [gpc EXCEPT ![i] = "done"]
  /\ UNCHANGED << targetAddrList, bpc, spawned, conn0, err0, locker, conn,
                  errList, ctxDone, connWrites, firstFail, bret, open >>
  /\ UNCHANGED << frameVars, resolveVars, callVars >>

\* A wait that does not wait.
WaitOverAtOnce == TRUE

\* line 244: wg.Wait() returns when the counter is zero.
WaitOver == wg = 0

\* A result that reports a recorded error although a dial won.
DialResultErrorsFirst(c, el) ==
  IF Len(el) > 0
    THEN [conn |-> Nil, err |-> el[1]]
    ELSE [conn |-> c, err |-> NoErr]

\* A result that reports the last recorded error.
DialResultLastError(c, el) ==
  IF c = Nil
    THEN IF Len(el) = 0
           THEN [conn |-> Nil, err |-> Panic("errList[0]")]
           ELSE [conn |-> Nil, err |-> el[Len(el)]]
    ELSE [conn |-> c, err |-> NoErr]

\* lines 246-249: the winner, or else the first recorded error.  errList[0]
\* of an empty list is an index-out-of-range panic.
DialResult(c, el) ==
  IF c = Nil
    THEN IF Len(el) = 0
           THEN [conn |-> Nil, err |-> Panic("errList[0]")]
           ELSE [conn |-> Nil, err |-> el[1]]
    ELSE [conn |-> c, err |-> NoErr]

\* lines 244-249: wg.Wait(), then the result.
DialReturn ==
  /\ bpc = "wait"
  /\ WaitOver
  /\ bret' = DialResult(conn, errList)
  /\ bpc' = "returned"
  /\ UNCHANGED << targetAddrList, spawned, gpc, conn0, err0, locker, conn,
                  errList, wg, ctxDone, connWrites, firstFail, open >>
  /\ UNCHANGED << frameVars, resolveVars, callVars >>

\* A caller inside the package calls gDialRemote with some server list.
InitDial ==
  /\ targetAddrList \in { SubSeq(gRootServers, 1, n) : n \in 0 .. MaxAddrs }
  /\ bpc = "entry"
  /\ spawned = 0
  /\ gpc = [i \in Addrs |-> "idle"]
  /\ conn0 = [i \in Addrs |-> Nil]
  /\ err0 = [i \in Addrs |-> NoErr]
  /\ locker = 0
  /\ conn = Nil
  /\ errList = << >>
  /\ wg = 0
  /\ ctxDone = FALSE
  /\ connWrites = 0
  /\ firstFail = 0
  /\ bret = NoReturn
  /\ NoCaller
  /\ open = {}
  /\ FrameIdle
  /\ ResolveIdle

NextDial ==
  \/ DialEntry
  \/ DialSpawn
  \/ DialLoopExit
  \/ \E i \in Addrs : GoDial(i)
  \/ \E i \in Addrs : GoLock(i)
  \/ \E i \in Addrs : GoCheck(i)
  \/ \E i \in Addrs : GoAssign(i)
  \/ \E i \in Addrs : GoUnlock(i)
  \/ \E i \in Addrs : GoDone(i)
  \/ DialReturn

SpecDial == InitDial /\ [][NextDial]_vars

(***************************************************************************)
(* Claims about gDialRemote, checked under SpecDial.                       *)
(***************************************************************************)
Succeeded == { i \in Addrs : conn0[i] # Nil }

Failed == { i \in Addrs : err0[i] # NoErr }

\* C2: under every interleaving the winner slot is assigned at most once, and
\* never changes once it holds a connection; when gDialRemote returns, the
\* only connection still open is the one it returns, every other successful
\* dial's connection having been closed.
C2_SingleWinner ==
  /\ connWrites <= 1
  /\ (conn # Nil => connWrites = 1 /\ conn \in { conn0[i] : i \in Succeeded })
  /\ (bpc = "returned" =>
        /\ open = (IF bret.conn = Nil THEN {} ELSE { bret.conn })
        /\ (Succeeded # {} => bret.conn \in { conn0[i] : i \in Succeeded })
        /\ \A i \in Succeeded : conn0[i] # bret.conn => conn0[i] \notin open)

\* Two dials succeeded, one was installed and returned, the other closed.
C2_Witness ==
  /\ bpc = "returned"
  /\ Cardinality(Succeeded) >= 2
  /\ bret.conn # Nil
  /\ open = { bret.conn }

\* C3: when exactly one dial succeeds, gDialRemote returns that dial's
\* connection and a nil error, wherever the address stands in the list and
\* in whatever order the attempts finish.
C3_OnlyReachableWins ==
  (bpc = "returned" /\ Cardinality(Succeeded) = 1) =>
     \A i \in Succeeded : bret = [conn |-> << 0, i >>, err |-> NoErr]

\* The last of three addresses is the only reachable one and the two failures
\* were recorded before it took the mutex.
C3_Witness ==
  /\ bpc = "returned"
  /\ Len(targetAddrList) = 3
  /\ Succeeded = { 3 }
  /\ errList = << DialErr(2), DialErr(1) >>
  /\ bret.conn = << 0, 3 >>

\* C4: when every dial of a non-empty list fails, gDialRemote returns no
\* connection and the error appended first to errList, the error of the first
\* failing goroutine that entered the critical section; errList then holds
\* exactly one error per address, so errList[0] exists.
C4_FirstRecordedError ==
  (bpc = "returned" /\ Len(targetAddrList) > 0 /\ Succeeded = {}) =>
     /\ bret.conn = Nil
     /\ Len(errList) = Len(targetAddrList)
     /\ { errList[k] : k \in 1 .. Len(errList) } = { DialErr(i) : i \in Addrs }
     /\ firstFail \in Addrs
     /\ bret.err = DialErr(firstFail)
     /\ bret.err = errList[1]

\* Three dials failed and the goroutine of the second address recorded its
\* error first.
C4_Witness ==
  /\ bpc = "returned"
  /\ Len(targetAddrList) = 3
  /\ Succeeded = {}
  /\ firstFail = 2
  /\ bret = [conn |-> Nil, err |-> DialErr(2)]

\* C5: called with an empty list, gDialRemote returns an error and no
\* connection at once: it never enters the loop or the wait, starts no
\* goroutine and dials nothing.
C5_EmptyListRefused ==
  Len(targetAddrList) = 0 =>
     /\ bpc \in { "entry", "returned" }
     /\ spawned = 0 /\ wg = 0 /\ open = {}
     /\ (bpc = "returned" => bret.conn = Nil /\ bret.err = ErrAddrListNil)

C5_Witness ==
  /\ Len(targetAddrList) = 0
  /\ bpc = "returned"
  /\ bret = [conn |-> Nil, err |-> ErrAddrListNil]

\* C6: gDialRemote does not return before every goroutine it started has
\* finished; once it has returned no goroutine is running, none holds the
\* mutex, and no step can change the winner slot or the error list.
C6_ReturnsAfterAllAttempts ==
  bpc = "returned" =>
     /\ spawned = Len(targetAddrList)
     /\ \A i \in Addrs : gpc[i] = "done"
     /\ locker = 0 /\ wg = 0
     /\ ~ ENABLED (\E i \in Addrs : GoDial(i) \/ GoLock(i) \/ GoCheck(i)
                                       \/ GoAssign(i) \/ GoUnlock(i) \/ GoDone(i))

\* A return after three goroutines finished: one recorded an error, one won
\* and one closed its losing connection.
C6_Witness ==
  /\ bpc = "returned"
  /\ Len(targetAddrList) = 3
  /\ \A i \in Addrs : gpc[i] = "done"
  /\ Cardinality(Failed) = 1
  /\ Cardinality(Succeeded) = 2
  /\ Cardinality(open) = 1

\* gDialRemote under a scheduler that lets the call make progress: as long
\* as some goroutine of the call can take a step, one of them does.  That a
\* dial in progress can take its step is the assumption that every dial ends
\* (each has a TimeOut of ten seconds, line 225); a goroutine waiting for the
\* mutex can take its step when the mutex is free; the caller can return
\* when the WaitGroup counter is zero.  No step can be taken twice, so every
\* goroutine that can run does run.
SpecDialFair == SpecDial /\ WF_vars(NextDial)

\* C20: every call of gDialRemote returns, with every goroutine it started
\* finished, the mutex free and the WaitGroup counter at zero.
C20_DialReturns ==
  (bpc = "entry") ~>
     (/\ bpc = "returned"
      /\ wg = 0
      /\ locker = 0
      /\ \A i \in 1 .. Len(targetAddrList) : gpc[i] = "done")

\* A call with three servers has returned: one dial failed, one won and one
\* lost and was closed; the mutex is free.
C20_Witness ==
  /\ bpc = "returned"
  /\ Len(targetAddrList) = 3
  /\ Cardinality(Failed) = 1
  /\ Cardinality(Succeeded) = 2
  /\ wg = 0
  /\ locker = 0
  /\ bret.conn # Nil
  /\ open = { bret.conn }

(***************************************************************************)
(* exchangePacket: one query and one reply over an established connection, *)
(* each preceded by its length as two big-endian bytes.  Bytes are the     *)
(* integers 0..255.                                                        *)
(***************************************************************************)
\* math.MaxUint16
MaxUint16 == 65535

Min(a, b) == IF a < b THEN a ELSE b

\* line 254: the conversion uint16(len(send)) keeps the low 16 bits.
ToUint16(v) == v % (MaxUint16 + 1)

\* line 254: binary.BigEndian.PutUint16 of a uint16: high byte, low byte.
PutUint16(v) == << v \div 256, v % 256 >>

\* line 265: binary.BigEndian.Uint16 of the first two bytes of b.
Uint16(b) == b[1] * 256 + b[2]

\* A buffer with room for more than the longest payload the prefix can hold.
MakeTempLarger == [i \in 1 .. 2 + MaxUint16 + 300 |-> 0]

\* line 253: make([]byte, 2+math.MaxUint16): that many zero bytes.
MakeTemp == [i \in 1 .. 2 + MaxUint16 |-> 0]

\* lines 254-255: Go's copy(dst, src) and PutUint16(dst, v): the first
\* min(len(dst), len(src)) bytes of dst are overwritten, the rest kept.
Copy(dst, src) ==
  SubSeq(src, 1, Min(Len(dst), Len(src)))
    \o SubSeq(dst, Min(Len(dst), Len(src)) + 1, Len(dst))

\* lines 253-255: temp after the length and the request were put in it.
FilledTemp(snd) ==
  LET t1 == Copy(MakeTemp, PutUint16(ToUint16(Len(snd))))
  IN  SubSeq(t1, 1, 2) \o Copy(SubSeq(t1, 3, Len(t1)), snd)

\* lines 261, 266: io.ReadFull(conn, buf) with k = len(buf), when the stream
\* holds at least k more bytes.
ReadFullOk(k) == Len(stream) >= k

\* io.EOF when nothing was read, io.ErrUnexpectedEOF after a short read.
ReadFullErr == IF Len(stream) = 0 THEN Err("EOF", 0) ELSE Err("ErrUnexpectedEOF", 0)

\* The other end of the connection: it sends back what it received ("echo"),
\* or a payload behind its two-byte big-endian length ("frame"), or any bytes
\* at all and then closes ("raw").
PeerStream(p, w) ==
  CASE p.mode = "echo"  -> w
    [] p.mode = "frame" -> << Len(p.payload) \div 256, Len(p.payload) % 256 >> \o p.payload
    [] p.mode = "raw"   -> p.bytes

\* lines 253-260: the buffer is filled and temp[:2+len(send)] is written in
\* one Write.  The slice expression panics when 2+len(send) exceeds the
\* buffer.  A failed Write may have sent the first bytes.
XWrite ==
  /\ xpc = "write"
  /\ temp' = FilledTemp(send)
  /\ IF 2 + Len(send) > Len(temp')
       THEN /\ xret' = [receive |-> << >>, err |-> Panic("slice bounds out of range")]
            /\ xpc' = "done"
            /\ UNCHANGED << wire, wrote, stream >>
       ELSE \E ok \in BOOLEAN :
              IF ok
                THEN /\ wire' = SubSeq(temp', 1, 2 + Len(send))
                     /\ wrote' = TRUE
                     /\ stream' = PeerStream(peer, wire')
                     /\ xpc' = "readLen"
                     /\ xret' = xret
                ELSE /\ \E k \in 0 .. 1 : wire' = SubSeq(temp', 1, k)
                     /\ xret' = [receive |-> << >>, err |-> Err("write", 0)]
                     /\ xpc' = "done"
                     /\ UNCHANGED << wrote, stream >>
  /\ UNCHANGED << send, peer, open >>
  /\ UNCHANGED << brokerVars, resolveVars, callVars >>

\* lines 261-264: the two bytes of the reply's length are read into temp[:2].
XReadLen ==
  /\ xpc = "readLen"
  /\ IF ReadFullOk(2)
       THEN /\ temp' = Copy(temp, SubSeq(stream, 1, 2))
            /\ stream' = SubSeq(stream, 3, Len(stream))
            /\ xpc' = "readBody"
            /\ xret' = xret
       ELSE /\ temp' = Copy(temp, stream)
            /\ stream' = << >>
            /\ xret' = [receive |-> << >>, err |-> ReadFullErr]
            /\ xpc' = "done"
  /\ UNCHANGED << send, wire, wrote, peer, open >>
  /\ UNCHANGED << brokerVars, resolveVars, callVars >>

\* lines 265-270: the bytes of the reply are read into temp[2:2+n], which is
\* the result.  n is a uint16, so 2+n is a uint16 sum: it wraps to 0 for
\* n = 65534 and to 1 for n = 65535, and the slice expression temp[2:2+n]
\* then panics before anything is read.
XReadBody ==
  /\ xpc = "readBody"
  /\ LET n == Uint16(temp)
         high == ToUint16(2 + n)
     IN  IF high < 2
           THEN /\ xret' = [receive |-> << >>, err |-> Panic("slice bounds out of range")]
                /\ UNCHANGED << temp, stream >>
           ELSE IF ReadFullOk(high - 2)
             THEN /\ temp' = SubSeq(temp, 1, 2)
                               \o Copy(SubSeq(temp, 3, Len(temp)), SubSeq(stream, 1, high - 2))
                  /\ stream' = SubSeq(stream, high - 1, Len(stream))
                  /\ xret' = [receive |-> SubSeq(temp', 3, high), err |-> NoErr]
             ELSE /\ temp' = SubSeq(temp, 1, 2) \o Copy(SubSeq(temp, 3, Len(temp)), stream)
                  /\ stream' = << >>
                  /\ xret' = [receive |-> << >>, err |-> ReadFullErr]
  /\ xpc' = "done"
  /\ UNCHANGED << send, wire, wrote, peer, open >>
  /\ UNCHANGED << brokerVars, resolveVars, callVars >>

\* The payload lengths exercised: the ends of the range, the values around a
\* change of the length's high byte, and two lengths the prefix cannot hold.
FrameLens == { 0, 1, 2, 255, 256, 257, MaxUint16 - 2, MaxUint16, MaxUint16 + 1, MaxUint16 + 200 }

\* Bytes that differ from one position to the next.
Pattern == [i \in 1 .. MaxUint16 + 300 |-> (i * 7) % 251]

Payload(len, seed) == SubSeq(Pattern, 1 + seed, len + seed)

Peers ==
  { [mode |-> "echo"] }
    \cup { [mode |-> "frame", payload |-> Payload(l, 5)] :
             l \in { 0, 1, 256, MaxUint16 - 2, MaxUint16 - 1, MaxUint16 } }
    \cup { [mode |-> "raw", bytes |-> b] :
             b \in { << >>, << 0 >>, << 0, 2, 9 >>, << 0, 1, 9, 8 >> } }

\* A caller holding an established connection calls exchangePacket.
InitFrame ==
  /\ BrokerIdle
  /\ open = {}
  /\ xpc = "write"
  /\ send \in { Payload(l, s) : l \in FrameLens, s \in { 0, 100 } }
  /\ temp = << >>
  /\ wire = << >>
  /\ wrote = FALSE
  /\ peer \in Peers
  /\ stream = << >>
  /\ xret = [receive |-> << >>, err |-> NoErr]
  /\ ResolveIdle
  /\ NoCaller

NextFrame ==
  \/ XWrite
  \/ XReadLen
  \/ XReadBody

SpecFrame == InitFrame /\ [][NextFrame]_vars

\* C10: for a payload of L bytes, 0 <= L <= 65535, what exchangePacket writes
\* is L as two big-endian bytes followed by the payload unchanged; a reply
\* framed the same way comes back as exactly its payload, and the request
\* echoed by the other end comes back as the request.
C10_FramingRoundTrip ==
  /\ (wrote /\ Len(send) <= MaxUint16) =>
        /\ Len(wire) = 2 + Len(send)
        /\ wire[1] * 256 + wire[2] = Len(send)
        /\ SubSeq(wire, 3, Len(wire)) = send
  /\ (xpc = "done" /\ wrote /\ peer.mode = "frame") =>
        xret = [receive |-> peer.payload, err |-> NoErr]
  /\ (xpc = "done" /\ wrote /\ peer.mode = "echo") =>
        xret = [receive |-> send, err |-> NoErr]

\* C18: a call of exchangePacket with a payload of more than 65535 bytes
\* writes nothing, reads nothing and returns nothing: it ends in the panic
\* of the slice expression of line 257; so whenever the Write has succeeded
\* the two bytes at the head of what was written are the count of the bytes
\* behind them, which are the payload.
C18_NoOversizedFrame ==
  /\ (Len(send) > MaxUint16 =>
        /\ wire = << >>
        /\ ~ wrote
        /\ stream = << >>
        /\ xpc \in { "write", "done" }
        /\ (xpc = "done" =>
              xret = [receive |-> << >>, err |-> Panic("slice bounds out of range")]))
  /\ (wrote =>
        /\ Len(send) <= MaxUint16
        /\ Len(wire) >= 2
        /\ wire[1] * 256 + wire[2] = Len(wire) - 2
        /\ SubSeq(wire, 3, Len(wire)) = send)

\* The call with a payload of 65536 bytes ended in the panic, nothing written.
C18_Witness ==
  /\ xpc = "done"
  /\ Len(send) = MaxUint16 + 1
  /\ Len(temp) = 2 + MaxUint16
  /\ wire = << >>
  /\ ~ wrote
  /\ xret.err = Panic("slice bounds out of range")

(***************************************************************************)
(* Strings and the dnsmessage codec, as far as this package uses them.     *)
(***************************************************************************)
Dot == << "." >>

\* strings.HasSuffix
HasSuffix(s, suffix) ==
  /\ Len(s) >= Len(suffix)
  /\ SubSeq(s, Len(s) - Len(suffix) + 1, Len(s)) = suffix

\* strings.TrimSuffix
TrimSuffix(s, suffix) ==
  IF HasSuffix(s, suffix) THEN SubSeq(s, 1, Len(s) - Len(suffix)) ELSE s

\* The byte of a character.
Ord(c) ==
  CASE c = "." -> 46 [] c = ":" -> 58
    [] c = "0" -> 48 [] c = "1" -> 49 [] c = "2" -> 50 [] c = "3" -> 51
    [] c = "4" -> 52 [] c = "5" -> 53 [] c = "6" -> 54 [] c = "7" -> 55
    [] c = "8" -> 56 [] c = "9" -> 57
    [] c = "a" -> 97 [] c = "b" -> 98 [] c = "c" -> 99 [] c = "m" -> 109
    [] c = "n" -> 110 [] c = "s" -> 115 [] c = "t" -> 116 [] c = "x" -> 120

\* Go's < on strings: byte by byte, a proper prefix first.
RECURSIVE StrLess(_, _)
StrLess(a, b) ==
  IF Len(b) = 0 THEN FALSE
  ELSE IF Len(a) = 0 THEN TRUE
  ELSE IF Ord(a[1]) # Ord(b[1]) THEN Ord(a[1]) < Ord(b[1])
  ELSE StrLess(Tail(a), Tail(b))

DigitChar == << "0", "1", "2", "3", "4", "5", "6", "7", "8", "9" >>

\* A byte in decimal.
RECURSIVE Decimal(_)
Decimal(n) ==
  IF n < 10 THEN << DigitChar[n + 1] >>
  ELSE Decimal(n \div 10) \o << DigitChar[(n % 10) + 1] >>

\* line 31: net.IPv4(a, b, c, d).String()
IPv4String(a) ==
  Decimal(a[1]) \o Dot \o Decimal(a[2]) \o Dot \o Decimal(a[3]) \o Dot \o Decimal(a[4])

\* dnsmessage: a name holds at most 255 bytes.
NameLen == 255

\* line 146: dnsmessage.NewName fails on a name longer than 255 bytes.
NewNameFails(d) == Len(d) > NameLen

\* The labels of a name that ends in a dot: its pieces between the dots.
RECURSIVE Labels(_, _)
Labels(s, label) ==
  IF Len(s) = 0 THEN << >>
  ELSE IF s[1] = "." THEN << label >> \o Labels(Tail(s), << >>)
  ELSE Labels(Tail(s), Append(label, s[1]))

\* line 172: Message.Pack fails on a name that does not end in a dot, and on
\* an empty label or one longer than 63 bytes (the root name "." apart).
PackFails(name) ==
  \/ ~ HasSuffix(name, Dot)
  \/ /\ name # Dot
     /\ \E k \in 1 .. Len(Labels(name, << >>)) :
          LET l == Labels(name, << >>)[k] IN Len(l) = 0 \/ Len(l) > 63

RECURSIVE PackLabels(_)
PackLabels(ls) ==
  IF Len(ls) = 0 THEN << >>
  ELSE << Len(ls[1]) >> \o [i \in 1 .. Len(ls[1]) |-> Ord(ls[1][i])] \o PackLabels(Tail(ls))

\* The name on the wire: each label behind its length, then a zero byte.
PackName(name) ==
  IF name = Dot THEN << 0 >> ELSE PackLabels(Labels(name, << >>)) \o << 0 >>

\* dnsmessage.TypeA, ...
TypeCode(t) ==
  CASE t = "A" -> 1 [] t = "NS" -> 2 [] t = "CNAME" -> 5 [] t = "SOA" -> 6
    [] t = "MX" -> 15 [] t = "TXT" -> 16

\* lines 150-172: msg.Pack() of the query: the header with the identifier, no
\* flag set and one question, then the name, the type and ClassINET.
Pack(id, name, typeC) ==
  << id \div 256, id % 256, 0, 0, 0, 1, 0, 0, 0, 0, 0, 0 >>
    \o PackName(name)
    \o << TypeCode(typeC) \div 256, TypeCode(typeC) % 256, 0, 1 >>

\* lines 22, 40, 58, 76, 94, 115: the type each Lookup function asks for.
TypeOf(f) ==
  CASE f = "LookupA" -> "A" [] f = "LookupSOA" -> "SOA" [] f = "LookupNS" -> "NS"
    [] f = "LookupTXT" -> "TXT" [] f = "LookupCNAME" -> "TXT" [] f = "LookupMX" -> "MX"

ErrNotFound == Err("ErrNotFound", 0)

ErrMaxDepth == Err("ErrMaxDepth", 0)

(***************************************************************************)
(* Replies.  The bytes of a reply stand for the message Unpack makes of    *)
(* them, or for nothing when Unpack fails on them.                         *)
(***************************************************************************)
AResource(a) == [kind |-> "A", A |-> a]
NSResource(ns) == [kind |-> "NS", NS |-> ns]
SOAResource(ns) == [kind |-> "SOA", NS |-> ns]
TXTResource(txt) == [kind |-> "TXT", TXT |-> txt]
CNAMEResource(cname) == [kind |-> "CNAME", CNAME |-> cname]
MXResource(mx, pref) == [kind |-> "MX", MX |-> mx, Pref |-> pref]

Undecodable == [valid |-> FALSE, Answers |-> << >>, Authorities |-> << >>]

Message(an, au) == [valid |-> TRUE, Answers |-> an, Authorities |-> au]

NameA == << "a", "." >>
NameB == << "b", "." >>
NameC == << "c", "." >>
NameN == << "n", "s", "." >>

AnswerLists ==
  { << AResource(<< 10, 0, 0, 1 >>) >>,
    << AResource(<< 10, 0, 0, 1 >>), AResource(<< 192, 168, 255, 7 >>) >>,
    << NSResource(NameN) >>,
    << NSResource(Dot), AResource(<< 10, 0, 0, 1 >>) >>,
    << SOAResource(NameN) >>,
    << TXTResource(<< << "t" >>, << >> >>), TXTResource(<< << "x" >> >>) >>,
    << TXTResource(<< >>) >>,
    << CNAMEResource(<< >>) >>,
    << CNAMEResource(<< >>), CNAMEResource(NameA), CNAMEResource(NameB) >>,
    << MXResource(NameA, 10) >>,
    << MXResource(NameA, 10), MXResource(NameB, 20), MXResource(NameC, 20) >>,
    << MXResource(NameC, 20), MXResource(NameA, 10), MXResource(NameB, 20) >> }

AuthorityLists ==
  { << >>,
    << NSResource(NameN) >>,
    << NSResource(NameA), NSResource(Dot) >>,
    << SOAResource(NameN) >>,
    << SOAResource(NameN), NSResource(NameN), AResource(<< 10, 0, 0, 1 >>) >> }

\* What a server may send back: bytes Unpack refuses, an answer (with or
\* without a referral beside it), or no answer and some authority section.
Replies ==
  { Undecodable }
    \cup { Message(an, au) : an \in AnswerLists, au \in { << >>, << NSResource(NameN) >> } }
    \cup { Message(<< >>, au) : au \in AuthorityLists }

(***************************************************************************)
(* The Lookup functions' projections of the answers.                       *)
(***************************************************************************)
\* The answers whose Body has the asserted type, in order.
OfKind(answerList, kind) == SelectSeq(answerList, LAMBDA r : r.kind = kind)

\* lines 26-32
ProjectA(answerList) ==
  LET as == OfKind(answerList, "A") IN [i \in 1 .. Len(as) |-> IPv4String(as[i].A)]

\* lines 44-50
ProjectSOA(answerList) ==
  LET as == OfKind(answerList, "SOA") IN [i \in 1 .. Len(as) |-> TrimSuffix(as[i].NS, Dot)]

\* lines 62-68
ProjectNS(answerList) ==
  LET as == OfKind(answerList, "NS") IN [i \in 1 .. Len(as) |-> TrimSuffix(as[i].NS, Dot)]

\* lines 80-86: append(txtResourceList, txtResource.TXT...)
RECURSIVE ProjectTXT(_)
ProjectTXT(answerList) ==
  IF Len(answerList) = 0 THEN << >>
  ELSE (IF answerList[1].kind = "TXT" THEN answerList[1].TXT ELSE << >>)
         \o ProjectTXT(Tail(answerList))

\* A loop without the break: cname is what the last CNAME answer holds.
RECURSIVE ProjectCNAMELast(_, _)
ProjectCNAMELast(answerList, cname) ==
  IF Len(answerList) = 0 THEN cname
  ELSE IF answerList[1].kind # "CNAME" THEN ProjectCNAMELast(Tail(answerList), cname)
  ELSE ProjectCNAMELast(Tail(answerList), answerList[1].CNAME)

\* lines 98-107: cname is overwritten by each CNAME answer until one is not
\* empty.
RECURSIVE ProjectCNAME(_, _)
ProjectCNAME(answerList, cname) ==
  IF Len(answerList) = 0 THEN cname
  ELSE IF answerList[1].kind # "CNAME" THEN ProjectCNAME(Tail(answerList), cname)
  ELSE IF answerList[1].CNAME # << >> THEN answerList[1].CNAME
  ELSE ProjectCNAME(Tail(answerList), answerList[1].CNAME)

\* A less function that puts the lower preference first.
MXLessAscending(a, b) ==
  IF a.Pref # b.Pref THEN a.Pref < b.Pref ELSE StrLess(a.Host, b.Host)

\* lines 132-138: the less function given to sort.Slice.
MXLess(a, b) ==
  IF a.Pref # b.Pref THEN a.Pref > b.Pref ELSE StrLess(a.Host, b.Host)

\* sort.Slice: the list ordered by MXLess (elements that MXLess does not
\* order are equal, so the order is the only one).
RECURSIVE InsertMX(_, _)
InsertMX(x, sorted) ==
  IF Len(sorted) = 0 THEN << x >>
  ELSE IF MXLess(x, sorted[1]) THEN << x >> \o sorted
  ELSE << sorted[1] >> \o InsertMX(x, Tail(sorted))

RECURSIVE SortMX(_)
SortMX(list) ==
  IF Len(list) = 0 THEN << >> ELSE InsertMX(list[1], SortMX(Tail(list)))

\* lines 119-128
CollectMX(answerList) ==
  LET as == OfKind(answerList, "MX")
  IN  [i \in 1 .. Len(as) |-> [Host |-> as[i].MX, Pref |-> as[i].Pref]]

\* A projection that is returned as it is, empty or not.
ProjectedUnchecked(value) == [value |-> value, err |-> NoErr]

\* lines 33-36, 51-54, 69-72, 87-90, 108-111, 129-131: an empty projection
\* is ErrNotFound.
Projected(value) ==
  IF Len(value) = 0
    THEN [value |-> << >>, err |-> ErrNotFound]
    ELSE [value |-> value, err |-> NoErr]

\* lines 21-140: what the Lookup function f makes of the result of
\* lookupResourceListL1.
Project(f, r) ==
  IF r.err # NoErr THEN [value |-> << >>, err |-> r.err]
  ELSE CASE f = "LookupA"     -> Projected(ProjectA(r.resourceList))
         [] f = "LookupSOA"   -> Projected(ProjectSOA(r.resourceList))
         [] f = "LookupNS"    -> Projected(ProjectNS(r.resourceList))
         [] f = "LookupTXT"   -> Projected(ProjectTXT(r.resourceList))
         [] f = "LookupCNAME" -> Projected(ProjectCNAME(r.resourceList, << >>))
         [] f = "LookupMX"    ->
              LET p == Projected(CollectMX(r.resourceList))
              IN  [value |-> SortMX(p.value), err |-> p.err]

(***************************************************************************)
(* lookupResourceListL1.  Each hop calls gDialRemote and exchangePacket    *)
(* and blocks until they return, so a call is one step here: gDialRemote   *)
(* by its outcomes (DialOutcomes, which SpecDial's step-by-step race is    *)
(* checked to stay within), exchangePacket by what it returns.             *)
(***************************************************************************)
\* The depth ceiling of line 178.
MaxDepth == 10

\* A ceiling that stops one hop early.
DepthExceededEarly(d) == d >= MaxDepth

\* line 178
DepthExceeded(d) == d > MaxDepth

\* A race whose losers are not closed.
LeftOpenAll(S, w, d) == { << d, i >> : i \in S }

\* lines 236-240: of the connections dialed at depth d, the attempts S that
\* succeeded, all but the winner w are closed.
LeftOpen(S, w, d) == { << d, i >> : i \in S } \ { << d, i >> : i \in S \ { w } }

\* lines 214-250: what a call of gDialRemote at depth d can return and which
\* of the connections it dialed it leaves open: an error when the list is
\* empty; when every dial fails, the error of whichever attempt recorded its
\* error first; otherwise the connection of whichever successful attempt
\* took the mutex first.
DialOutcomes(list, d) ==
  IF Len(list) = 0
    THEN { [conn |-> Nil, err |-> ErrAddrListNil, open |-> {}] }
    ELSE { [conn |-> Nil, err |-> DialErr(e), open |-> {}] : e \in 1 .. Len(list) }
           \cup UNION { { [conn |-> << d, w >>, err |-> NoErr, open |-> LeftOpen(S, w, d)] :
                            w \in S } : S \in SUBSET (1 .. Len(list)) }

\* lines 252-271: how a call of exchangePacket can end: with an error of the
\* Write or of a read, with the payload of the reply, or, when the reply's
\* length prefix is 65534 or 65535, with the panic of the slice expression
\* of line 266.  (The packed query is far shorter than 65535 bytes, see
\* C7_HopConnClosedOnce, so the slice of line 257 does not panic here.)
ExchangeOutcomes ==
  { [receive |-> Undecodable, err |-> Err("write", 0)],
    [receive |-> Undecodable, err |-> Err("ErrUnexpectedEOF", 0)],
    [receive |-> Undecodable, err |-> Panic("slice bounds out of range")] }
    \cup { [receive |-> r, err |-> NoErr] : r \in Replies }

\* A list of the NS names as they are, trailing dot included.
NsListDotKept(authorities) ==
  LET ns == OfKind(authorities, "NS")
  IN  [i \in 1 .. Len(ns) |-> ns[i].NS \o << ":", "5", "3" >>]

\* lines 200-206: the NS records of the authority section, each without its
\* trailing dot and with ":53".
NsList(authorities) ==
  LET ns == OfKind(authorities, "NS")
  IN  [i \in 1 .. Len(ns) |-> TrimSuffix(ns[i].NS, Dot) \o << ":", "5", "3" >>]

\* A referral that is followed even when it names no server.
ReferralEndsNever(nsList) == FALSE

\* line 207: nsList == nil: nothing was appended.
ReferralEnds(nsList) == Len(nsList) = 0

\* A name left as the caller gave it.
NormalizeOmitted(d) == d

\* lines 143-145: a dot is appended to a name that does not end in one.
Normalize(d) == IF HasSuffix(d, Dot) THEN d ELSE d \o Dot

\* return nil, e / return resourceList, nil
Return(resourceList, e) ==
  /\ rret' = [resourceList |-> resourceList, err |-> e]
  /\ rpc' = "returned"

\* lines 143-176: the name is normalised and built, the identifier taken,
\* the query packed and the root servers chosen.
LStart ==
  /\ rpc = "start"
  /\ domain' = Normalize(domain)
  /\ IF NewNameFails(domain')
       THEN /\ Return(<< >>, Err("NewName", 0))
            /\ UNCHANGED << gLookupId, send, serverList >>
       ELSE /\ gLookupId' = AddUint32(gLookupId, 1)
            /\ IF PackFails(domain')
                 THEN /\ Return(<< >>, Err("Pack", 0))
                      /\ UNCHANGED << send, serverList >>
                 ELSE /\ send' = Pack(Uint32ToUint16(gLookupId'), domain', TypeOf(fn))
                      /\ serverList' = gRootServers
                      /\ rpc' = "dial"
                      /\ rret' = rret
  /\ UNCHANGED << fn, depth, hopConn, receive, hopErr, lret, attempts, lastDialed,
                  exchanges, closes, decodes, open >>
  /\ UNCHANGED << given, sent0, lastSent >>
  /\ UNCHANGED << brokerVars, frameRest, callVars >>

\* lines 177-185: the ceiling, then gDialRemote(serverList).
LDial ==
  /\ rpc = "dial"
  /\ IF DepthExceeded(depth)
       THEN /\ Return(<< >>, ErrMaxDepth)
            /\ UNCHANGED << hopConn, attempts, lastDialed, closes, decodes, open >>
       ELSE /\ attempts' = attempts + 1
            /\ lastDialed' = serverList
            /\ closes' = 0
            /\ decodes' = 0
            /\ \E out \in DialOutcomes(serverList, depth) :
                 /\ hopConn' = out.conn
                 /\ open' = open \cup out.open
                 /\ IF out.err # NoErr
                      THEN Return(<< >>, out.err)
                      ELSE rpc' = "exchange" /\ rret' = rret
  /\ UNCHANGED << fn, domain, gLookupId, depth, serverList, receive, hopErr, lret,
                  exchanges, send >>
  /\ UNCHANGED << given, sent0, lastSent >>
  /\ UNCHANGED << brokerVars, frameRest, callVars >>

\* A hop that, after the first, builds and packs the query again, with a
\* fresh identifier.
LExchangeRepacked ==
  /\ rpc = "exchange"
  /\ exchanges' = exchanges + 1
  /\ gLookupId' = IF depth = 0 THEN gLookupId ELSE AddUint32(gLookupId, 1)
  /\ send' = Pack(Uint32ToUint16(gLookupId'), domain, TypeOf(fn))
  /\ sent0' = IF depth = 0 THEN send' ELSE sent0
  /\ lastSent' = send'
  /\ \E out \in ExchangeOutcomes :
       IF out.err.kind = "panic"
         THEN /\ rpc' = "panicked"
              /\ UNCHANGED << receive, hopErr >>
         ELSE /\ receive' = out.receive
              /\ hopErr' = out.err
              /\ rpc' = "close"
  /\ UNCHANGED << fn, domain, given, depth, serverList, hopConn, rret, lret,
                  attempts, lastDialed, closes, decodes, open >>
  /\ UNCHANGED << brokerVars, frameRest, callVars >>

\* lines 186-187: exchangePacket(conn, send).  When it panics nothing
\* recovers: the calling goroutine runs no further line of this package.
LExchange ==
  /\ rpc = "exchange"
  /\ exchanges' = exchanges + 1
  /\ sent0' = IF depth = 0 THEN send ELSE sent0
  /\ lastSent' = send
  /\ \E out \in ExchangeOutcomes :
       IF out.err.kind = "panic"
         THEN /\ rpc' = "panicked"
              /\ UNCHANGED << receive, hopErr >>
         ELSE /\ receive' = out.receive
              /\ hopErr' = out.err
              /\ rpc' = "close"
  /\ UNCHANGED << fn, domain, given, gLookupId, depth, serverList, hopConn, rret, lret,
                  attempts, lastDialed, closes, decodes, send, open >>
  /\ UNCHANGED << brokerVars, frameRest, callVars >>

\* A hop that goes on to decode whatever the exchange returned.
LCloseIgnoringErr ==
  /\ rpc = "close"
  /\ open' = open \ { hopConn }
  /\ closes' = closes + 1
  /\ rpc' = "unpack"
  /\ UNCHANGED << fn, domain, gLookupId, depth, serverList, hopConn, receive,
                  hopErr, rret, lret, attempts, lastDialed, exchanges, decodes, send >>
  /\ UNCHANGED << given, sent0, lastSent >>
  /\ UNCHANGED << brokerVars, frameRest, callVars >>

\* A hop that returns the exchange's error before closing the connection.
LCloseAfterErrCheck ==
  /\ rpc = "close"
  /\ IF hopErr # NoErr
       THEN /\ Return(<< >>, hopErr)
            /\ UNCHANGED << open, closes >>
       ELSE /\ open' = open \ { hopConn }
            /\ closes' = closes + 1
            /\ rpc' = "unpack"
            /\ rret' = rret
  /\ UNCHANGED << fn, domain, gLookupId, depth, serverList, hopConn, receive,
                  hopErr, lret, attempts, lastDialed, exchanges, decodes, send >>
  /\ UNCHANGED << given, sent0, lastSent >>
  /\ UNCHANGED << brokerVars, frameRest, callVars >>

\* lines 188-191: conn.Close(), then the exchange's error is looked at.
LClose ==
  /\ rpc = "close"
  /\ open' = open \ { hopConn }
  /\ closes' = closes + 1
  /\ IF hopErr # NoErr
       THEN Return(<< >>, hopErr)
       ELSE rpc' = "unpack" /\ rret' = rret
  /\ UNCHANGED << fn, domain, gLookupId, depth, serverList, hopConn, receive,
                  hopErr, lret, attempts, lastDialed, exchanges, decodes, send >>
  /\ UNCHANGED << given, sent0, lastSent >>
  /\ UNCHANGED << brokerVars, frameRest, callVars >>

\* lines 192-211: the reply is decoded; answers end the call, a referral
\* replaces the server list and starts the next hop.
LUnpack ==
  /\ rpc = "unpack"
  /\ decodes' = decodes + 1
  /\ IF ~ receive.valid
       THEN /\ Return(<< >>, Err("Unpack", 0))
            /\ UNCHANGED << serverList, depth >>
       ELSE IF Len(receive.Answers) > 0
         THEN /\ Return(receive.Answers, NoErr)
              /\ UNCHANGED << serverList, depth >>
         ELSE IF ReferralEnds(NsList(receive.Authorities))
           THEN /\ Return(<< >>, ErrNotFound)
                /\ UNCHANGED << serverList, depth >>
           ELSE /\ serverList' = NsList(receive.Authorities)
                /\ depth' = depth + 1
                /\ rpc' = "dial"
                /\ rret' = rret
  /\ UNCHANGED << fn, domain, gLookupId, hopConn, receive, hopErr, lret, attempts,
                  lastDialed, exchanges, closes, send, open >>
  /\ UNCHANGED << given, sent0, lastSent >>
  /\ UNCHANGED << brokerVars, frameRest, callVars >>

\* lines 21-140: the Lookup function projects what lookupResourceListL1
\* returned.
LProject ==
  /\ rpc = "returned"
  /\ lret' = Project(fn, rret)
  /\ rpc' = "done"
  /\ UNCHANGED << fn, domain, gLookupId, depth, serverList, hopConn, receive,
                  hopErr, rret, attempts, lastDialed, exchanges, closes, decodes,
                  send, open >>
  /\ UNCHANGED << given, sent0, lastSent >>
  /\ UNCHANGED << brokerVars, frameRest, callVars >>

Fns == { "LookupA", "LookupSOA", "LookupNS", "LookupTXT", "LookupCNAME", "LookupMX" }

\* The arguments tried: with and without the trailing dot, the empty string
\* and the root name, a name with an empty label and a name of 256 bytes.
Domains ==
  { << >>, Dot, << "a" >>, << "a", "." >>, << "a", ".", "." >>,
    [i \in 1 .. NameLen + 1 |-> "a"] }

\* A Lookup function is called in a process that has made no query yet.
Init ==
  /\ BrokerIdle
  /\ xpc = "idle"
  /\ send = << >>
  /\ temp = << >>
  /\ wire = << >>
  /\ wrote = FALSE
  /\ peer = [mode |-> "none"]
  /\ stream = << >>
  /\ xret = [receive |-> << >>, err |-> NoErr]
  /\ fn \in Fns
  /\ domain \in Domains
  /\ given = domain
  /\ rpc = "start"
  /\ gLookupId = ZeroUint32
  /\ depth = 0
  /\ serverList = << >>
  /\ hopConn = Nil
  /\ receive = Undecodable
  /\ hopErr = NoErr
  /\ rret = [resourceList |-> << >>, err |-> NoErr]
  /\ lret = [value |-> << >>, err |-> NoErr]
  /\ attempts = 0
  /\ lastDialed = << >>
  /\ exchanges = 0
  /\ closes = 0
  /\ decodes = 0
  /\ sent0 = << >>
  /\ lastSent = << >>
  /\ NoCaller
  /\ open = {}

Next ==
  \/ LStart
  \/ LDial
  \/ LExchange
  \/ LClose
  \/ LUnpack
  \/ LProject

Spec == Init /\ [][Next]_vars

\* The step-by-step race of SpecDial returns nothing that DialOutcomes does
\* not allow, and leaves open what DialOutcomes says.
DialOutcomesCoverRace ==
  bpc = "returned" =>
     [conn |-> bret.conn, err |-> bret.err, open |-> open]
        \in DialOutcomes(targetAddrList, 0)

(***************************************************************************)
(* Claims about lookupResourceListL1 and the Lookup functions, checked     *)
(* under Spec.                                                             *)
(***************************************************************************)
Returned == rpc \in { "returned", "done" }

\* The reply of the current hop is a referral: no answer and at least one NS
\* record in the authority section.
IsReferral(r) ==
  r.valid /\ Len(r.Answers) = 0 /\ Len(OfKind(r.Authorities, "NS")) > 0

\* C1: one call makes at most 11 query attempts, at depths 0 to 10: the hop at
\* depth d is the (d+1)-th dial and the (d+1)-th exchange; after 11 referrals
\* the call is at depth 11 with 11 dials made, makes no 12th and returns
\* ErrMaxDepth, which it returns in no other case.
C1_AtMostElevenAttempts ==
  /\ attempts <= MaxDepth + 1
  /\ exchanges <= attempts
  /\ (rpc = "dial" => attempts = depth /\ exchanges = depth)
  /\ (rpc \in { "exchange", "close", "unpack" } =>
        depth \in 0 .. MaxDepth /\ attempts = depth + 1)
  /\ (Returned /\ rret.err = ErrMaxDepth =>
        attempts = 11 /\ exchanges = 11 /\ depth = 11 /\ IsReferral(receive))
  /\ (Returned /\ depth = MaxDepth + 1 => rret.err = ErrMaxDepth)

\* Eleven referrals were followed and the call ended with ErrMaxDepth.
C1_Witness ==
  /\ rpc = "returned"
  /\ rret.err = ErrMaxDepth
  /\ attempts = 11
  /\ exchanges = 11
  /\ depth = 11

C8_NeverDialsEmptySet ==
  /\ (rpc = "dial" => Len(serverList) > 0)
  /\ (attempts > 0 => Len(lastDialed) > 0)
  /\ (attempts = 1 => lastDialed = gRootServers /\ Len(lastDialed) = 13)
  /\ (Returned /\ rret.err = ErrAddrListNil => FALSE)
  /\ (Returned /\ decodes = 1 /\ receive.valid /\ Len(receive.Answers) = 0
        /\ Len(OfKind(receive.Authorities, "NS")) = 0 =>
        rret.err = ErrNotFound /\ attempts = depth + 1)

\* A referral was followed, and the next reply had an authority section
\* without any NS record: ErrNotFound.
C8_Witness ==
  /\ rpc = "returned"
  /\ depth = 1
  /\ attempts = 2
  /\ receive.valid
  /\ Len(receive.Answers) = 0
  /\ Len(receive.Authorities) > 0
  /\ rret.err = ErrNotFound

\* The kind of record each Lookup function keeps.
KeptKind(f) ==
  CASE f = "LookupA" -> "A" [] f = "LookupSOA" -> "SOA" [] f = "LookupNS" -> "NS"
    [] f = "LookupTXT" -> "TXT" [] f = "LookupCNAME" -> "CNAME" [] f = "LookupMX" -> "MX"

\* C9: a nil error from lookupResourceListL1 comes with at least one record,
\* and a nil error from a Lookup function with a non-empty list (a non-empty
\* string from LookupCNAME); answers among which no record is of the kind
\* the function keeps give ErrNotFound.
C9_SuccessIsNonEmpty ==
  /\ (Returned /\ rret.err = NoErr => Len(rret.resourceList) > 0)
  /\ (rpc = "done" /\ lret.err = NoErr => Len(lret.value) > 0 /\ rret.err = NoErr)
  /\ (rpc = "done" /\ rret.err = NoErr
        /\ Len(OfKind(rret.resourceList, KeptKind(fn))) = 0 =>
        lret = [value |-> << >>, err |-> ErrNotFound])

\* LookupA was answered with an NS record only: ErrNotFound.
C9_Witness ==
  /\ rpc = "done"
  /\ fn = "LookupA"
  /\ rret.err = NoErr
  /\ rret.resourceList = << NSResource(NameN) >>
  /\ lret = [value |-> << >>, err |-> ErrNotFound]

(***************************************************************************)
(* The projections on their own: a Lookup function whose call of           *)
(* lookupResourceListL1 has returned after one hop, for every list of at   *)
(* most MaxAnswers answers a reply can hold.                               *)
(***************************************************************************)
\* The most answers in the reply that is projected.
MaxAnswers == 3

\* The records the answers are made of.
AnswerRecords ==
  { AResource(<< 10, 0, 0, 1 >>), NSResource(NameN),
    TXTResource(<< << "t" >>, << >> >>),
    CNAMEResource(<< >>), CNAMEResource(NameA), CNAMEResource(NameB),
    MXResource(NameA, 10), MXResource(NameB, 20), MXResource(NameC, 20) }

\* The answer sections: every list of 1 to MaxAnswers records.
AnswerSeqs == UNION { [1 .. n -> AnswerRecords] : n \in 1 .. MaxAnswers }

\* lines 176-211 have run once: the root servers were dialed, the exchange
\* succeeded, the connection was closed and the reply decoded; it held the
\* answers an, or neither an answer nor an NS record.
ReturnedAfterOneHop(f, an) ==
  /\ fn = f
  /\ domain = NameA
  /\ given = << "a" >>
  /\ rpc = "returned"
  /\ gLookupId = AddUint32(ZeroUint32, 1)
  /\ depth = 0
  /\ serverList = gRootServers
  /\ hopConn = << 0, 1 >>
  /\ receive = Message(an, << >>)
  /\ hopErr = NoErr
  /\ rret = [resourceList |-> an, err |-> IF Len(an) > 0 THEN NoErr ELSE ErrNotFound]
  /\ lret = [value |-> << >>, err |-> NoErr]
  /\ attempts = 1
  /\ lastDialed = gRootServers
  /\ exchanges = 1
  /\ closes = 1
  /\ decodes = 1
  /\ send = Pack(1, NameA, TypeOf(f))
  /\ sent0 = send
  /\ lastSent = send

InitProject ==
  /\ BrokerIdle
  /\ NoCaller
  /\ open = {}
  /\ xpc = "idle"
  /\ temp = << >>
  /\ wire = << >>
  /\ wrote = FALSE
  /\ peer = [mode |-> "none"]
  /\ stream = << >>
  /\ xret = [receive |-> << >>, err |-> NoErr]
  /\ \E f \in Fns, an \in AnswerSeqs \cup { << >> } : ReturnedAfterOneHop(f, an)

NextProject == LProject

SpecProject == InitProject /\ [][NextProject]_vars

\* How many MX answers of the list name the host h with the preference p.
MXAnswers(answerList, h, p) ==
  Cardinality({ i \in 1 .. Len(answerList) :
                  /\ answerList[i].kind = "MX"
                  /\ answerList[i].MX = h
                  /\ answerList[i].Pref = p })

\* How many pairs of the list are (h, p).
MXPairs(list, h, p) ==
  Cardinality({ i \in 1 .. Len(list) : list[i].Host = h /\ list[i].Pref = p })

\* C11: when the answers hold an MX record, LookupMX returns one (host,
\* preference) pair for each MX answer and nothing else; the pairs are in
\* descending preference, those of equal preference in ascending host; so
\* the answers (a,10),(b,20),(c,20) give (b,20),(c,20),(a,10) in whichever
\* order they arrived.
C11_MXSortedPermutation ==
  (rpc = "done" /\ fn = "LookupMX" /\ rret.err = NoErr
     /\ \E i \in 1 .. Len(rret.resourceList) : rret.resourceList[i].kind = "MX") =>
    /\ lret.err = NoErr
    /\ \A r \in AnswerRecords :
         r.kind = "MX" =>
           MXPairs(lret.value, r.MX, r.Pref) = MXAnswers(rret.resourceList, r.MX, r.Pref)
    /\ \A i \in 1 .. Len(lret.value) :
         \E r \in AnswerRecords :
           r.kind = "MX" /\ lret.value[i] = [Host |-> r.MX, Pref |-> r.Pref]
    /\ \A i \in 1 .. Len(lret.value) - 1 :
         \/ lret.value[i].Pref > lret.value[i + 1].Pref
         \/ /\ lret.value[i].Pref = lret.value[i + 1].Pref
            /\ ~ StrLess(lret.value[i + 1].Host, lret.value[i].Host)
    /\ (\A r \in { MXResource(NameA, 10), MXResource(NameB, 20), MXResource(NameC, 20) } :
          MXAnswers(rret.resourceList, r.MX, r.Pref) = 1) =>
         lret.value = << [Host |-> NameB, Pref |-> 20], [Host |-> NameC, Pref |-> 20],
                         [Host |-> NameA, Pref |-> 10] >>

\* The answers arrived as (c,20),(a,10),(b,20) and were returned as
\* (b,20),(c,20),(a,10).
C11_Witness ==
  /\ rpc = "done"
  /\ fn = "LookupMX"
  /\ rret.resourceList = << MXResource(NameC, 20), MXResource(NameA, 10), MXResource(NameB, 20) >>
  /\ lret = [value |-> << [Host |-> NameB, Pref |-> 20], [Host |-> NameC, Pref |-> 20],
                          [Host |-> NameA, Pref |-> 10] >>,
             err |-> NoErr]

\* The CNAME answers of the list that hold a name.
NamedCNAMEs(answerList) ==
  { i \in 1 .. Len(answerList) :
      answerList[i].kind = "CNAME" /\ answerList[i].CNAME # << >> }

\* C14: LookupCNAME returns the name of the first CNAME answer, in the order
\* of the answers, that holds a non-empty name, as it is, trailing dot
\* included; when no CNAME answer holds a name it returns ErrNotFound.
C14_FirstNamedCNAME ==
  (rpc = "done" /\ fn = "LookupCNAME" /\ rret.err = NoErr) =>
    LET named == NamedCNAMEs(rret.resourceList)
    IN  IF named = {}
          THEN lret = [value |-> << >>, err |-> ErrNotFound]
          ELSE LET first == CHOOSE i \in named : \A j \in named : i <= j
               IN  /\ lret = [value |-> rret.resourceList[first].CNAME, err |-> NoErr]
                   /\ lret.value[Len(lret.value)] = "."

\* CNAME(""), CNAME("b."), CNAME("a.") gave "b.".
C14_Witness ==
  /\ rpc = "done"
  /\ fn = "LookupCNAME"
  /\ rret.resourceList = << CNAMEResource(<< >>), CNAMEResource(NameB), CNAMEResource(NameA) >>
  /\ lret = [value |-> NameB, err |-> NoErr]

\* C15: in lookupResourceListL1 an error is set only by returning; the error
\* of the step that failed first is the one returned, and the steps made
\* are those up to it: none for a name that cannot be built or packed, the
\* dial alone at the hop whose dial failed, dial and exchange (and the
\* close) at the hop whose exchange failed, one decode at the hop whose reply
\* does not decode; each depth is dialed once; once the call has returned
\* nothing more is dialed, exchanged, closed or decoded.  (The panic of
\* exchangePacket is no error it returns: it ends the goroutine's run of
\* this package with no step after it either.)
C15_FirstFailureEndsCall ==
  /\ [] /\ (rret.err # NoErr => Returned /\ rret.resourceList = << >>)
        /\ (hopErr # NoErr =>
              /\ rpc \in { "close", "returned", "done" }
              /\ decodes = 0
              /\ exchanges = depth + 1
              /\ attempts = depth + 1
              /\ (Returned => rret.err = hopErr))
        /\ (Returned /\ rret.err = Err("NewName", 0) =>
              NewNameFails(domain) /\ attempts = 0 /\ exchanges = 0 /\ send = << >>
                /\ gLookupId = ZeroUint32)
        /\ (Returned /\ rret.err = Err("Pack", 0) =>
              PackFails(domain) /\ attempts = 0 /\ exchanges = 0 /\ send = << >>)
        /\ (Returned /\ rret.err.kind = "dial" =>
              /\ rret.err \in { DialErr(i) : i \in 1 .. Len(lastDialed) }
              /\ hopConn = Nil
              /\ attempts = depth + 1
              /\ exchanges = depth
              /\ decodes = 0)
        /\ (Returned /\ rret.err = Err("Unpack", 0) =>
              /\ ~ receive.valid
              /\ hopErr = NoErr
              /\ attempts = depth + 1
              /\ exchanges = depth + 1
              /\ decodes = 1)
        /\ (Returned /\ hopErr = NoErr /\ decodes = 1 /\ ~ receive.valid =>
              rret.err = Err("Unpack", 0))
        /\ (rpc = "done" /\ rret.err # NoErr => lret = [value |-> << >>, err |-> rret.err])
  /\ [][Returned \/ rpc = "panicked" =>
         UNCHANGED << attempts, exchanges, closes, decodes, rret, open >>]_vars

\* The dial of the third hop failed: three dials, two exchanges, and the
\* error of one of that hop's servers returned.
C15_Witness ==
  /\ rpc = "done"
  /\ depth = 2
  /\ attempts = 3
  /\ exchanges = 2
  /\ rret.err = DialErr(1)
  /\ lret.err = DialErr(1)

\* C16: one call adds to gLookupId once, before the first hop, and packs the
\* query once: the bytes given to exchangePacket at every hop are those
\* given at depth 0, with the identifier taken at the start.
C16_QueryBuiltOnce ==
  /\ (rpc # "start" =>
        gLookupId = (IF Returned /\ rret.err = Err("NewName", 0)
                       THEN ZeroUint32 ELSE AddUint32(ZeroUint32, 1)))
  /\ (exchanges > 0 =>
        /\ lastSent = sent0
        /\ sent0 = Pack(1, domain, TypeOf(fn))
        /\ SubSeq(lastSent, 1, 2) = << 0, 1 >>)
  /\ (rpc \in { "exchange", "close", "unpack" } \/ (rpc = "dial" /\ depth > 0) =>
        send = Pack(1, domain, TypeOf(fn)))

\* The third exchange of a call was given the bytes of the first.
C16_Witness ==
  /\ rpc = "close"
  /\ depth = 2
  /\ exchanges = 3
  /\ lastSent = sent0
  /\ Len(sent0) > 12
  /\ gLookupId = AddUint32(ZeroUint32, 1)

\* A name without its last byte when that byte is a dot.
WithoutDot(s) ==
  IF Len(s) > 0 /\ s[Len(s)] = "." THEN SubSeq(s, 1, Len(s) - 1) ELSE s

\* The targets of the NS records of an authority section, in order, each
\* without its trailing dot and with the port.
RECURSIVE NSTargets(_)
NSTargets(authorities) ==
  IF Len(authorities) = 0 THEN << >>
  ELSE (IF authorities[1].kind = "NS"
          THEN << WithoutDot(authorities[1].NS) \o << ":", "5", "3" >> >>
          ELSE << >>)
         \o NSTargets(Tail(authorities))

\* C17: the servers of every hop after the first are the targets of the NS
\* records of the previous reply's authority section, in their order,
\* without the trailing dot and with ":53", and nothing else: no root
\* server, no server of an earlier hop, nothing for a record that is not
\* NS; they are the list that hop dials, for every Lookup function.
C17_NextServersFromAuthority ==
  /\ (rpc = "dial" /\ depth > 0 =>
        /\ receive.valid
        /\ Len(receive.Answers) = 0
        /\ serverList = NSTargets(receive.Authorities)
        /\ Len(serverList) = Len(OfKind(receive.Authorities, "NS"))
        /\ \A i \in 1 .. Len(serverList), j \in 1 .. Len(gRootServers) :
             serverList[i] # gRootServers[j])
  /\ (attempts = depth + 1 /\ attempts > 0 => lastDialed = serverList)
  /\ (depth = 0 /\ rpc # "start" /\ ~ (Returned /\ attempts = 0) =>
        serverList = gRootServers)

\* The authority section SOA, NS("ns."), A gave the one server "ns:53".
C17_Witness ==
  /\ rpc = "exchange"
  /\ depth = 2
  /\ fn = "LookupTXT"
  /\ receive.Authorities = << SOAResource(NameN), NSResource(NameN), AResource(<< 10, 0, 0, 1 >>) >>
  /\ lastDialed = << << "n", "s", ":", "5", "3" >> >>

\* C19: outside a hop's exchange no connection is open: none before a dial,
\* none while the reply is decoded and none when lookupResourceListL1 has
\* returned, whatever it returned; during the exchange the one open
\* connection is the one gDialRemote returned (and it is the one left when
\* exchangePacket panics, in which case lookupResourceListL1 does not
\* return).
C19_NoConnectionLeftOpen ==
  /\ (Returned => open = {})
  /\ (rpc \in { "start", "dial", "unpack" } => open = {})
  /\ (rpc \in { "exchange", "close", "panicked" } => open = { hopConn })

\* The call returned an error of the third hop's exchange, with no
\* connection open.
C19_Witness ==
  /\ rpc = "returned"
  /\ depth = 2
  /\ hopConn = << 2, 1 >>
  /\ hopErr # NoErr
  /\ rret.err = hopErr
  /\ open = {}

\* The trailing-dot form of a name.
Dotted(d) == IF Len(d) > 0 /\ d[Len(d)] = "." THEN d ELSE d \o << "." >>

\* The root name, a name of one label "a", or some other name, on the wire.
WireName(d) ==
  IF d = << "." >> THEN << 0 >>
  ELSE IF d = << "a", "." >> THEN << 1, 97, 0 >>
  ELSE PackName(d)

\* C12: what a call does with its argument d it does with the trailing-dot
\* form of d: the name it builds is that form, and the query it issues (in a
\* process that has made none before) is the one with identifier 1, that
\* name, the function's type and class IN, so that d and d + "." give the
\* same bytes at every hop; an argument whose trailing-dot form cannot be
\* built or packed gives no query, with or without the dot.
C12_QueryOfDottedName ==
  /\ (rpc # "start" /\ ~ (Returned /\ rret.err = Err("NewName", 0)) =>
        domain = Dotted(given))
  /\ (rpc # "start" /\ ~ NewNameFails(Dotted(given)) /\ ~ PackFails(Dotted(given)) =>
        /\ send = << 0, 1, 0, 0, 0, 1, 0, 0, 0, 0, 0, 0 >>
                    \o WireName(Dotted(given))
                    \o << 0, TypeCode(TypeOf(fn)), 0, 1 >>
        /\ (exchanges > 0 => lastSent = send)
        /\ (Returned => rret.err \notin { Err("NewName", 0), Err("Pack", 0) }))
  /\ (rpc # "start" /\ (NewNameFails(Dotted(given)) \/ PackFails(Dotted(given))) =>
        Returned /\ send = << >> /\ exchanges = 0
          /\ rret.err \in { Err("NewName", 0), Err("Pack", 0) })

\* A call given "a", without the dot, sent the query for "a." to the root
\* servers.
C12_Witness ==
  /\ rpc = "close"
  /\ given = << "a" >>
  /\ domain = << "a", "." >>
  /\ fn = "LookupA"
  /\ depth = 0
  /\ lastSent = << 0, 1, 0, 0, 0, 1, 0, 0, 0, 0, 0, 0, 1, 97, 0, 0, 1, 0, 1 >>

(***************************************************************************)
(* Lookup functions called by several goroutines of one process.  All a    *)
(* call shares with another is gLookupId, which it touches once, at line   *)
(* 152; what it does from line 176 on is explored under Spec and is one    *)
(* step here.                                                              *)
(***************************************************************************)
\* The goroutines that call Lookup functions.
Callers == { 1, 2 }

\* The most calls the goroutines make between them.
MaxCalls == 3

\* How many queries the process has built before, one call after another:
\* none, or so many that the low 16 bits of the counter are about to wrap.
BuiltBefore == { 0, 65534 }

\* The functions and the arguments of the calls: names that are packed, and
\* one that NewName accepts and Pack refuses.
CallFns == { "LookupA", "LookupMX" }

CallDomains == { << "a" >>, << "a", "." >>, << "a", ".", "." >> }

\* A goroutine that has called nothing yet.
IdleCaller ==
  [pc |-> "idle", fn |-> "none", arg |-> << >>, name |-> << >>, id |-> 0, seq |-> 0,
   send |-> << >>, err |-> NoErr, loaded |-> ZeroUint32]

\* lines 21-149: a Lookup function is called and calls lookupResourceListL1,
\* which normalises the name and builds it.
CBegin(p) ==
  /\ caller[p].pc \in { "idle", "returned" }
  /\ started < MaxCalls
  /\ started' = started + 1
  /\ \E f \in CallFns, d \in CallDomains :
       caller' = [caller EXCEPT ![p] =
                    [IdleCaller EXCEPT
                       !.fn = f, !.arg = d, !.name = Normalize(d),
                       !.pc = IF NewNameFails(Normalize(d)) THEN "returned" ELSE "add",
                       !.err = IF NewNameFails(Normalize(d))
                                 THEN Err("NewName", 0) ELSE NoErr]]
  /\ UNCHANGED << gLookupId, built, firstQuery >>
  /\ UNCHANGED << brokerVars, frameVars, resolveRest, open >>

\* An addition that is a load and a store, in two steps.
CAddRacy(p) ==
  /\ caller[p].pc \in { "add", "store" }
  /\ IF caller[p].pc = "add"
       THEN /\ caller' = [caller EXCEPT ![p].loaded = gLookupId, ![p].pc = "store"]
            /\ UNCHANGED << gLookupId, built, firstQuery >>
       ELSE LET v == AddUint32(caller[p].loaded, 1)
                packs == ~ PackFails(caller[p].name)
            IN  /\ gLookupId' = v
                /\ built' = built + 1
                /\ caller' = [caller EXCEPT
                     ![p].id = Uint32ToUint16(v),
                     ![p].seq = built',
                     ![p].send = IF packs
                                   THEN Pack(Uint32ToUint16(v), caller[p].name,
                                             TypeOf(caller[p].fn))
                                   ELSE << >>,
                     ![p].err = IF packs THEN NoErr ELSE Err("Pack", 0),
                     ![p].pc = IF packs THEN "hops" ELSE "returned"]
                /\ firstQuery' = IF packs /\ firstQuery.seq = 0
                                   THEN [seq |-> built', id |-> Uint32ToUint16(v)]
                                   ELSE firstQuery
  /\ UNCHANGED started
  /\ UNCHANGED << brokerVars, frameVars, resolveRest, open >>

\* lines 150-175: atomic.AddUint32 adds one to gLookupId and returns the new
\* value in one step; its low 16 bits are the identifier of the message,
\* which is then packed.
CAdd(p) ==
  /\ caller[p].pc = "add"
  /\ LET v == AddUint32(gLookupId, 1)
         packs == ~ PackFails(caller[p].name)
     IN  /\ gLookupId' = v
         /\ built' = built + 1
         /\ caller' = [caller EXCEPT
              ![p].id = Uint32ToUint16(v),
              ![p].seq = built',
              ![p].send = IF packs
                            THEN Pack(Uint32ToUint16(v), caller[p].name,
                                      TypeOf(caller[p].fn))
                            ELSE << >>,
              ![p].err = IF packs THEN NoErr ELSE Err("Pack", 0),
              ![p].pc = IF packs THEN "hops" ELSE "returned"]
         /\ firstQuery' = IF packs /\ firstQuery.seq = 0
                            THEN [seq |-> built', id |-> Uint32ToUint16(v)]
                            ELSE firstQuery
  /\ UNCHANGED started
  /\ UNCHANGED << brokerVars, frameVars, resolveRest, open >>

\* lines 176-211 and the projection: the hops of the call, with its query
\* in flight until it returns.
CHops(p) ==
  /\ caller[p].pc = "hops"
  /\ caller' = [caller EXCEPT ![p].pc = "returned"]
  /\ UNCHANGED << gLookupId, started, built, firstQuery >>
  /\ UNCHANGED << brokerVars, frameVars, resolveRest, open >>

\* A process that has built some number of queries, the first of them with
\* identifier 1, and whose goroutines are about to call Lookup functions.
InitCalls ==
  /\ BrokerIdle
  /\ FrameIdle
  /\ NoLookup
  /\ open = {}
  /\ \E b \in BuiltBefore :
       /\ built = b
       /\ gLookupId = AddUint32(ZeroUint32, b)
       /\ firstQuery = IF b = 0 THEN [seq |-> 0, id |-> 0] ELSE [seq |-> 1, id |-> 1]
  /\ started = 0
  /\ caller = [p \in Callers |-> IdleCaller]

NextCalls ==
  \/ \E p \in Callers : CBegin(p)
  \/ \E p \in Callers : CAdd(p)
  \/ \E p \in Callers : CHops(p)

SpecCalls == InitCalls /\ [][NextCalls]_vars

\* How far apart two additions are.
Apart(a, b) == IF a >= b THEN a - b ELSE b - a

\* The calls that have taken an identifier.
WithId == { p \in Callers : caller[p].seq > 0 }

\* The calls whose query was packed.
WithQuery == { p \in Callers : caller[p].send # << >> }

\* C13 as it is stated: the counter is the number of additions made, each
\* call that builds a message has added to it once, and no two queries of
\* the process carry the same identifier: not two of different goroutines,
\* and none that of the first query of the process.
C13_IdentifiersNeverRepeat ==
  /\ gLookupId = [hi |-> built \div 65536, lo |-> built % 65536]
  /\ \E b \in BuiltBefore : built - b \in 0 .. started
  /\ \A p \in WithQuery :
       /\ SubSeq(caller[p].send, 1, 2) = << caller[p].id \div 256, caller[p].id % 256 >>
       /\ (caller[p].seq # firstQuery.seq => caller[p].id # firstQuery.id)
  /\ \A p, q \in WithQuery : p # q => caller[p].id # caller[q].id

\* C13, amended: the counter is the number of additions made, under every
\* interleaving; each call that builds a message has added to it once; the
\* identifier of a query is the low 16 bits of the counter after its
\* addition, so that two queries carry the same identifier exactly when
\* their additions are a multiple of 65536 apart: the 65537th query of the
\* process carries the identifier of the first.
C13_IdentifiersRepeatAfter65536 ==
  /\ gLookupId = [hi |-> built \div 65536, lo |-> built % 65536]
  /\ \E b \in BuiltBefore : built - b \in 0 .. started
  /\ \A p \in WithId :
       /\ caller[p].seq <= built
       /\ caller[p].id = caller[p].seq % 65536
  /\ \A p \in WithQuery :
       /\ p \in WithId
       /\ SubSeq(caller[p].send, 1, 2) = << caller[p].id \div 256, caller[p].id % 256 >>
       /\ firstQuery.seq \in 1 .. caller[p].seq
       /\ (caller[p].id = firstQuery.id)
            <=> (Apart(caller[p].seq, firstQuery.seq) % 65536 = 0)
  /\ \A p, q \in WithId :
       p # q =>
         /\ caller[p].seq # caller[q].seq
         /\ (caller[p].id = caller[q].id)
              <=> (Apart(caller[p].seq, caller[q].seq) % 65536 = 0)

\* Two calls are in flight: the 65536th query of the process with
\* identifier 0 and the 65537th with identifier 1, that of the first.
C13_Witness ==
  /\ \A p \in Callers : caller[p].pc = "hops"
  /\ \E p, q \in Callers :
       /\ caller[p].seq = 65536
       /\ caller[p].id = 0
       /\ caller[q].seq = 65537
       /\ caller[q].id = 1
       /\ SubSeq(caller[q].send, 1, 2) = << 0, 1 >>
  /\ firstQuery = [seq |-> 1, id |-> 1]
  /\ gLookupId = [hi |-> 1, lo |-> 1]

=============================================================================
